---- MODULE Spec2Model ----
(***************************************************************************)
(* Model of the FileHyperlink extension's IndexerService                    *)
(* (src/src/IndexerService.ts): the in-memory name index, its rebuild,      *)
(* its substring query, the file-watcher handlers that keep it current and  *)
(* its disposal; and of the selection that provideDefinition                *)
(* (src/src/extension.ts) makes among the files a query returns.            *)
(*                                                                          *)
(* Strings are sequences of one-character strings, so that upper-casing,    *)
(* base-name parsing and substring containment are computed, not assumed.   *)
(* A JavaScript Map is a sequence of [key, uris] records in insertion       *)
(* order; a Uri is identified with its fsPath.                              *)
(***************************************************************************)
EXTENDS Naturals, Sequences, FiniteSets

(***************************************************************************)
(* Bounds.                                                                  *)
(***************************************************************************)
NumPaths == 3        \* how many paths of PathList exist in the workspace
MaxQueryLen == 2     \* longest search text tried against every index state
MaxNotices == 1      \* short-circuited buildIndex() calls followed per run
MaxCandidates == 3   \* longest list of index matches handed to provideDefinition
MaxDisposals == 2    \* dispose() calls followed: context.subscriptions and deactivate

(***************************************************************************)
(* The workspace's paths.  d/ab.s and e/Ab.h share the key AB; B is a       *)
(* substring of AB and of BA; d/a.b.s has a dot inside its name.            *)
(***************************************************************************)
PathList ==
  << <<"d", "/", "a", "b", ".", "s">>,
     <<"e", "/", "A", "b", ".", "h">>,
     <<"d", "/", "b", ".", "s">>,
     <<"d", "/", "b", "a", ".", "s">>,
     <<"d", "/", "a", ".", "b", ".", "s">> >>

Min(a, b) == IF a < b THEN a ELSE b

Paths == {PathList[i] : i \in 1..Min(NumPaths, Len(PathList))}

\* the characters of search texts: a letter in both cases and a lower-case one
Letters == {"a", "A", "b"}

RECURSIVE StringsOfLen(_)
StringsOfLen(n) ==
  IF n = 0 THEN {<<>>}
  ELSE {Append(s, c) : s \in StringsOfLen(n - 1), c \in Letters}

\* the non-empty search texts up to MaxQueryLen
SearchTexts == UNION {StringsOfLen(n) : n \in 1..MaxQueryLen}

\* an enumeration result: distinct paths of the workspace, in any order
RECURSIVE DistinctSeqs(_)
DistinctSeqs(S) ==
  {<<>>} \cup UNION {{<<p>> \o s : s \in DistinctSeqs(S \ {p})} : p \in S}

Enumerations == DistinctSeqs(Paths)

(***************************************************************************)
(* String functions of the JavaScript runtime and of Node's path module.    *)
(***************************************************************************)
Upper(c) ==
  CASE c = "a" -> "A"
    [] c = "b" -> "B"
    [] c = "c" -> "C"
    [] c = "d" -> "D"
    [] c = "e" -> "E"
    [] c = "h" -> "H"
    [] c = "k" -> "K"
    [] c = "o" -> "O"
    [] c = "p" -> "P"
    [] c = "q" -> "Q"
    [] c = "r" -> "R"
    [] c = "s" -> "S"
    [] c = "t" -> "T"
    [] c = "x" -> "X"
    [] OTHER -> c

toUpperCase(s) == [i \in 1..Len(s) |-> Upper(s[i])]

\* String.prototype.includes: scan the start positions from the left
RECURSIVE IncludesFrom(_, _, _)
IncludesFrom(s, t, i) ==
  IF i + Len(t) > Len(s) THEN FALSE
  ELSE IF SubSeq(s, i + 1, i + Len(t)) = t THEN TRUE
  ELSE IncludesFrom(s, t, i + 1)

\* variant of includes: receiver and argument exchanged
includesSwapped(s, t) == IncludesFrom(t, s, 0)

includes(s, t) == IncludesFrom(s, t, 0)

\* String.prototype.endsWith
endsWith(s, t) ==
  /\ Len(t) <= Len(s)
  /\ \A i \in 1..Len(t) : s[Len(s) - i + 1] = t[Len(t) - i + 1]

\* last position of character c in s, 0 when there is none
RECURSIVE LastIndexOf(_, _)
LastIndexOf(s, c) ==
  IF Len(s) = 0 THEN 0
  ELSE IF s[Len(s)] = c THEN Len(s)
  ELSE LastIndexOf(SubSeq(s, 1, Len(s) - 1), c)

\* path.basename (posix): what follows the last separator
basename(p) == SubSeq(p, LastIndexOf(p, "/") + 1, Len(p))

\* path.parse(p).name: the base name without its extension; a base name
\* with no dot, with its only dot in front, or equal to ".." has none
ParseName(p) ==
  LET base == basename(p)
      dot == LastIndexOf(base, ".")
  IN  IF dot <= 1 \/ base = <<".", ".">> THEN base
      ELSE SubSeq(base, 1, dot - 1)

(***************************************************************************)
(* The files of definition requests, for provideDefinition on its own.      *)
(***************************************************************************)
\* files an index query can return: every suffix of the ladder in some
\* letter case, a plain name, and names that the patterns below exclude
MatchFiles ==
  { <<"d", "/", "x", "_", "H", "o", "t", "_", "S", "p", "a", "r", "k", ".", "q">>,
    <<"d", "/", "x", "_", "H", "O", "T", ".", "q">>,
    <<"d", "/", "x", "_", "s", "p", "a", "r", "k", ".", "q">>,
    <<"d", "/", "x", ".", "q">>,
    <<"d", "/", "x", "_", "h", "o", "t", "_", "s", "p", "a", "r", "k", ".", "h">>,
    <<"d", "/", "x", "_", "C", "H", "K", ".", "q">> }

\* the index key of a file: path.parse(fsPath).name.toUpperCase()
ComputeKey(p) == toUpperCase(ParseName(p))

\* the keys of the files of the model, computed once
KeyTable ==
  [p \in {PathList[i] : i \in 1..Len(PathList)} \cup MatchFiles |-> ComputeKey(p)]

IndexKey(p) == KeyTable[p]

(***************************************************************************)
(* Map<string, Uri[]> as a sequence of entries in insertion order.          *)
(***************************************************************************)
MapKeys(m) == {m[i].key : i \in 1..Len(m)}

MapHas(m, k) == \E i \in 1..Len(m) : m[i].key = k

MapGet(m, k) == m[CHOOSE i \in 1..Len(m) : m[i].key = k].uris

\* variant of MapSet: an existing key is removed and inserted again, last
MapSetReinsert(m, k, v) ==
  Append(SelectSeq(m, LAMBDA e : e.key # k), [key |-> k, uris |-> v])

\* Map.set: an existing key keeps its position, a new key goes last
MapSet(m, k, v) ==
  IF MapHas(m, k)
  THEN [i \in 1..Len(m) |-> IF m[i].key = k THEN [key |-> k, uris |-> v] ELSE m[i]]
  ELSE Append(m, [key |-> k, uris |-> v])

MapDelete(m, k) == SelectSeq(m, LAMBDA e : e.key # k)

MapClear(m) == <<>>

\* the Uris of all entries, in Map order
RECURSIVE MapUris(_)
MapUris(m) == IF Len(m) = 0 THEN <<>> ELSE Head(m).uris \o MapUris(Tail(m))

(***************************************************************************)
(* IndexerService: the pure parts of its methods, as functions of the Map.  *)
(***************************************************************************)
Contains(uris, p) == \E i \in 1..Len(uris) : uris[i] = p

\* buildIndex, lines 54-63: group the enumerated files under their keys
RECURSIVE Populate(_, _)
Populate(m, files) ==
  IF Len(files) = 0 THEN m
  ELSE LET file == Head(files)
           fileNameWithoutExt == IndexKey(file)
           m1 == IF ~MapHas(m, fileNameWithoutExt)
                 THEN MapSet(m, fileNameWithoutExt, <<>>)
                 ELSE m
           m2 == MapSet(m1, fileNameWithoutExt,
                        Append(MapGet(m1, fileNameWithoutExt), file))
       IN  Populate(m2, Tail(files))

\* query returns undefined, not an empty array, when nothing matched
Undefined == <<>>

\* query, lines 86-92: walk the entries in Map order
RECURSIVE QueryLoop(_, _, _, _)
QueryLoop(m, searchTextUpper, i, results) ==
  IF i > Len(m) THEN results
  ELSE QueryLoop(m, searchTextUpper, i + 1,
                 IF includes(m[i].key, searchTextUpper)
                 THEN results \o m[i].uris
                 ELSE results)

\* variant of query: the search text is not upper-cased
queryCaseSensitive(m, searchText) ==
  LET results == QueryLoop(m, searchText, 1, <<>>)
  IN  IF Len(results) > 0 THEN results ELSE Undefined

query(m, searchText) ==
  LET searchTextUpper == toUpperCase(searchText)
      results == QueryLoop(m, searchTextUpper, 1, <<>>)
  IN  IF Len(results) > 0 THEN results ELSE Undefined

\* variant of OnDidCreate: no test for the path being there already
OnDidCreateNoCheck(m, uri) ==
  LET fileName == IndexKey(uri)
      m1 == IF ~MapHas(m, fileName) THEN MapSet(m, fileName, <<>>) ELSE m
      uris == MapGet(m1, fileName)
  IN  IF Len(uris) < 3
      THEN MapSet(m1, fileName, Append(uris, uri))
      ELSE m1

\* watcher.onDidCreate
OnDidCreate(m, uri) ==
  LET fileName == IndexKey(uri)
      m1 == IF ~MapHas(m, fileName) THEN MapSet(m, fileName, <<>>) ELSE m
      uris == MapGet(m1, fileName)
  IN  IF ~Contains(uris, uri)
      THEN MapSet(m1, fileName, Append(uris, uri))
      ELSE m1

\* variant of OnDidDelete: the filtered list is stored even when empty
OnDidDeleteKeepEmpty(m, uri) ==
  LET fileName == IndexKey(uri)
  IN  IF MapHas(m, fileName)
      THEN MapSet(m, fileName,
                  SelectSeq(MapGet(m, fileName), LAMBDA existingUri : existingUri # uri))
      ELSE m

\* variant of OnDidDelete: the key is dropped with all it holds
OnDidDeleteDropKey(m, uri) ==
  LET fileName == IndexKey(uri)
  IN  IF MapHas(m, fileName) THEN MapDelete(m, fileName) ELSE m

\* watcher.onDidDelete
OnDidDelete(m, uri) ==
  LET fileName == IndexKey(uri)
  IN  IF MapHas(m, fileName)
      THEN LET uris == SelectSeq(MapGet(m, fileName), LAMBDA existingUri : existingUri # uri)
           IN  IF Len(uris) > 0
               THEN MapSet(m, fileName, uris)
               ELSE MapDelete(m, fileName)
      ELSE m

(***************************************************************************)
(* FileDefinitionProvider.provideDefinition from the index query on         *)
(* (src/src/extension.ts): the exclusion by file name and the ladder of     *)
(* preferred suffixes.                                                      *)
(***************************************************************************)
HOT_SPARK == <<"_", "H", "O", "T", "_", "S", "P", "A", "R", "K">>
HOT == <<"_", "H", "O", "T">>
SPARK == <<"_", "S", "P", "A", "R", "K">>

\* lines 96-106: drop the files whose base name contains a pattern
ExcludeByName(allMatchesFromIndex, excludeFilePatterns) ==
  IF Len(excludeFilePatterns) > 0
  THEN SelectSeq(allMatchesFromIndex,
         LAMBDA fileUri :
           LET fileNameWithExt == basename(fileUri)
           IN  ~\E n \in 1..Len(excludeFilePatterns) :
                  includes(toUpperCase(fileNameWithExt),
                           toUpperCase(excludeFilePatterns[n])))
  ELSE allMatchesFromIndex

\* variant of PreferBySuffix: _HOT is looked for before _HOT_SPARK
PreferHotFirst(matchedFiles) ==
  LET hotSparkFiles == SelectSeq(matchedFiles, LAMBDA uri : endsWith(IndexKey(uri), HOT_SPARK))
      hotFiles == SelectSeq(matchedFiles, LAMBDA uri : endsWith(IndexKey(uri), HOT))
      sparkFiles == SelectSeq(matchedFiles, LAMBDA uri : endsWith(IndexKey(uri), SPARK))
  IN  IF Len(hotFiles) > 0 THEN hotFiles
      ELSE IF Len(hotSparkFiles) > 0 THEN hotSparkFiles
      ELSE IF Len(matchedFiles) = 2 /\ Len(sparkFiles) > 0 THEN sparkFiles
      ELSE matchedFiles

\* variant of PreferBySuffix: _HOT is preferred among two matches only
PreferHotOfTwo(matchedFiles) ==
  LET hotSparkFiles == SelectSeq(matchedFiles, LAMBDA uri : endsWith(IndexKey(uri), HOT_SPARK))
      hotFiles == SelectSeq(matchedFiles, LAMBDA uri : endsWith(IndexKey(uri), HOT))
      sparkFiles == SelectSeq(matchedFiles, LAMBDA uri : endsWith(IndexKey(uri), SPARK))
  IN  IF Len(hotSparkFiles) > 0 THEN hotSparkFiles
      ELSE IF Len(matchedFiles) = 2 /\ Len(hotFiles) > 0 THEN hotFiles
      ELSE IF Len(matchedFiles) = 2 /\ Len(sparkFiles) > 0 THEN sparkFiles
      ELSE matchedFiles

\* variant of PreferBySuffix: _SPARK is preferred only when both matches end with it
PreferSparkPair(matchedFiles) ==
  LET hotSparkFiles == SelectSeq(matchedFiles, LAMBDA uri : endsWith(IndexKey(uri), HOT_SPARK))
      hotFiles == SelectSeq(matchedFiles, LAMBDA uri : endsWith(IndexKey(uri), HOT))
      sparkFiles == SelectSeq(matchedFiles, LAMBDA uri : endsWith(IndexKey(uri), SPARK))
  IN  IF Len(hotSparkFiles) > 0 THEN hotSparkFiles
      ELSE IF Len(hotFiles) > 0 THEN hotFiles
      ELSE IF Len(matchedFiles) = 2 /\ Len(sparkFiles) = 2 THEN sparkFiles
      ELSE matchedFiles

\* variant of PreferBySuffix: _SPARK is preferred whatever the number of matches
PreferSparkAnyCount(matchedFiles) ==
  LET hotSparkFiles == SelectSeq(matchedFiles, LAMBDA uri : endsWith(IndexKey(uri), HOT_SPARK))
      hotFiles == SelectSeq(matchedFiles, LAMBDA uri : endsWith(IndexKey(uri), HOT))
      sparkFiles == SelectSeq(matchedFiles, LAMBDA uri : endsWith(IndexKey(uri), SPARK))
  IN  IF Len(hotSparkFiles) > 0 THEN hotSparkFiles
      ELSE IF Len(hotFiles) > 0 THEN hotFiles
      ELSE IF Len(sparkFiles) > 0 THEN sparkFiles
      ELSE matchedFiles

\* lines 115-136: _HOT_SPARK, then _HOT, then _SPARK among exactly two
PreferBySuffix(matchedFiles) ==
  LET hotSparkFiles == SelectSeq(matchedFiles, LAMBDA uri : endsWith(IndexKey(uri), HOT_SPARK))
      hotFiles == SelectSeq(matchedFiles, LAMBDA uri : endsWith(IndexKey(uri), HOT))
      sparkFiles == SelectSeq(matchedFiles, LAMBDA uri : endsWith(IndexKey(uri), SPARK))
  IN  IF Len(hotSparkFiles) > 0 THEN hotSparkFiles
      ELSE IF Len(hotFiles) > 0 THEN hotFiles
      ELSE IF Len(matchedFiles) = 2 /\ Len(sparkFiles) > 0 THEN sparkFiles
      ELSE matchedFiles

\* variant of provideDefinition: the suffix ladder runs before the exclusion
provideDefinitionExcludeLast(allMatchesFromIndex, excludeFilePatterns) ==
  IF allMatchesFromIndex = Undefined \/ Len(allMatchesFromIndex) = 0
  THEN Undefined
  ELSE LET matchedFiles ==
             ExcludeByName(PreferBySuffix(allMatchesFromIndex), excludeFilePatterns)
       IN  IF Len(matchedFiles) = 0 THEN Undefined ELSE matchedFiles

\* provideDefinition, lines 87-145: undefined when nothing is left, the
\* files to show otherwise
provideDefinition(allMatchesFromIndex, excludeFilePatterns) ==
  IF allMatchesFromIndex = Undefined \/ Len(allMatchesFromIndex) = 0
  THEN Undefined
  ELSE LET matchedFiles == ExcludeByName(allMatchesFromIndex, excludeFilePatterns)
       IN  IF Len(matchedFiles) = 0
           THEN Undefined
           ELSE PreferBySuffix(matchedFiles)

(***************************************************************************)
(* State.                                                                   *)
(***************************************************************************)
VARIABLES
  index,       \* IndexerService.index
  isIndexing,  \* IndexerService.isIndexing
  watcher,     \* IndexerService.watcher: "undefined", "active" or "disposed"
  entered,     \* buildIndex() runs past the guard whose progress task has not begun
  scans,       \* buildIndex() runs awaiting workspace.findFiles
  notices,     \* showInformationMessage calls since a run last passed the guard
  errors,      \* showErrorMessage calls since a run last passed the guard
  touched,     \* a watch event was handled since a run last passed the guard
  last,        \* the step taken last, with its inputs
  releases,    \* calls of watcher.dispose()
  matches,     \* provideDefinition: what the index query returned
  patterns,    \* provideDefinition: the excludeFilePatterns setting
  shown,       \* provideDefinition: the files returned, Undefined for none
  provided     \* provideDefinition has returned

selectVars == <<matches, patterns, shown, provided>>

serviceVars ==
  <<index, isIndexing, watcher, entered, scans, notices, errors, touched, last, releases>>

vars == <<serviceVars, selectVars>>

Step(op, path, had, files) == [op |-> op, path |-> path, had |-> had, files |-> files]

\* uri is held by the entry of its key
Present(m, uri) == MapHas(m, IndexKey(uri)) /\ Contains(MapGet(m, IndexKey(uri)), uri)

\* the constructor: an empty index, and a watcher only when
\* indexing.filesToInclude is not empty
Init ==
  /\ index = <<>>
  /\ isIndexing = FALSE
  /\ watcher \in {"undefined", "active"}
  /\ entered = 0
  /\ scans = 0
  /\ notices = 0
  /\ errors = 0
  /\ touched = FALSE
  /\ last = Step("init", <<>>, FALSE, <<>>)
  /\ releases = 0
  /\ matches = Undefined
  /\ patterns = <<>>
  /\ shown = Undefined
  /\ provided = FALSE

\* variant of BuildIndexCall: no test of the in-progress flag
BuildIndexCallNoGuard ==
  /\ entered + scans < 2
  /\ isIndexing' = TRUE
  /\ entered' = entered + 1
  /\ notices' = 0
  /\ errors' = 0
  /\ touched' = FALSE
  /\ last' = Step("enter", <<>>, FALSE, <<>>)
  /\ UNCHANGED <<index, watcher, scans>>
  /\ UNCHANGED <<releases, selectVars>>

\* buildIndex() up to the call of withProgress, from activate or from the
\* rebuildIndex command
BuildIndexCall ==
  IF isIndexing
  THEN /\ notices < MaxNotices
       /\ notices' = notices + 1
       /\ last' = Step("skip", <<>>, FALSE, <<>>)
       /\ UNCHANGED <<index, isIndexing, watcher, entered, scans, errors, touched>>
       /\ UNCHANGED <<releases, selectVars>>
  ELSE /\ isIndexing' = TRUE
       /\ entered' = entered + 1
       /\ notices' = 0
       /\ errors' = 0
       /\ touched' = FALSE
       /\ last' = Step("enter", <<>>, FALSE, <<>>)
       /\ UNCHANGED <<index, watcher, scans>>
       /\ UNCHANGED <<releases, selectVars>>

\* variant of BuildStart: the old index is not cleared
BuildStartNoClear ==
  /\ entered > 0
  /\ entered' = entered - 1
  /\ scans' = scans + 1
  /\ last' = Step("start", <<>>, FALSE, MapUris(index))
  /\ UNCHANGED <<index, isIndexing, watcher, notices, errors, touched>>
  /\ UNCHANGED <<releases, selectVars>>

\* the progress task up to its await: the host decides when the task runs;
\* the step records the files that clear() removed
BuildStart ==
  /\ entered > 0
  /\ index' = MapClear(index)
  /\ entered' = entered - 1
  /\ scans' = scans + 1
  /\ last' = Step("start", <<>>, FALSE, MapUris(index))
  /\ UNCHANGED <<isIndexing, watcher, notices, errors, touched>>
  /\ UNCHANGED <<releases, selectVars>>

\* findFiles resolves: the populate loop and the finally block; the result
\* is the host's listing, made at some time during the await, so it need
\* not agree with the watch events handled in the meantime
BuildResolve(files) ==
  /\ scans > 0
  /\ last' = Step("resolve", <<>>, FALSE, files)
  /\ scans' = scans - 1
  /\ isIndexing' = FALSE
  /\ index' = Populate(index, files)
  /\ UNCHANGED <<watcher, entered, notices, errors, touched>>
  /\ UNCHANGED <<releases, selectVars>>

\* variant of BuildReject: the flag is not released on the failure path
BuildRejectNoFinally ==
  /\ scans > 0
  /\ errors' = errors + 1
  /\ scans' = scans - 1
  /\ last' = Step("reject", <<>>, FALSE, <<>>)
  /\ UNCHANGED <<index, isIndexing, watcher, entered, notices, touched>>
  /\ UNCHANGED <<releases, selectVars>>

\* variant of BuildReject: the error message is shown in the catch block
\* and once more by the caller
BuildRejectReportsTwice ==
  /\ scans > 0
  /\ errors' = errors + 2
  /\ isIndexing' = FALSE
  /\ scans' = scans - 1
  /\ last' = Step("reject", <<>>, FALSE, <<>>)
  /\ UNCHANGED <<index, watcher, entered, notices, touched>>
  /\ UNCHANGED <<releases, selectVars>>

\* findFiles rejects: the catch and the finally block
BuildReject ==
  /\ scans > 0
  /\ errors' = errors + 1
  /\ isIndexing' = FALSE
  /\ scans' = scans - 1
  /\ last' = Step("reject", <<>>, FALSE, <<>>)
  /\ UNCHANGED <<index, watcher, entered, notices, touched>>
  /\ UNCHANGED <<releases, selectVars>>

\* the watcher reports a created file
WatchCreate(uri) ==
  /\ watcher = "active"
  /\ index' = OnDidCreate(index, uri)
  /\ touched' = TRUE
  /\ last' = Step("create", uri, Present(index, uri), <<>>)
  /\ UNCHANGED <<isIndexing, watcher, entered, scans, notices, errors>>
  /\ UNCHANGED <<releases, selectVars>>

\* the watcher reports a deleted file
WatchDelete(uri) ==
  /\ watcher = "active"
  /\ index' = OnDidDelete(index, uri)
  /\ touched' = TRUE
  /\ last' = Step("delete", uri, Present(index, uri), <<>>)
  /\ UNCHANGED <<isIndexing, watcher, entered, scans, notices, errors>>
  /\ UNCHANGED <<releases, selectVars>>

\* dispose(), from context.subscriptions and from deactivate
Dispose ==
  /\ IF watcher # "undefined"
     THEN /\ releases < MaxDisposals
          /\ releases' = releases + 1
          /\ watcher' = "disposed"
     ELSE UNCHANGED <<releases, watcher>>
  /\ last' = Step("dispose", <<>>, watcher # "undefined", <<>>)
  /\ UNCHANGED <<index, isIndexing, entered, scans, notices, errors, touched>>
  /\ UNCHANGED selectVars

Next ==
  \/ BuildIndexCall
  \/ BuildStart
  \/ \E files \in Enumerations : BuildResolve(files)
  \/ BuildReject
  \/ \E uri \in Paths : WatchCreate(uri)
  \/ \E uri \in Paths : WatchDelete(uri)

Spec == Init /\ [][Next]_vars

\* the host runs the progress task and findFiles settles
FairSpec ==
  /\ Spec
  /\ WF_vars(BuildStart)
  /\ WF_vars((\E files \in Enumerations : BuildResolve(files)) \/ BuildReject)

\* the service up to and including its disposal
LifecycleNext ==
  \/ Next
  \/ Dispose

LifecycleSpec == Init /\ [][LifecycleNext]_vars

(***************************************************************************)
(* provideDefinition on its own: the inputs are drawn at the start, and the *)
(* request computes the files to show.                                      *)
(***************************************************************************)
\* values of the excludeFilePatterns setting
PatternLists ==
  { <<>>,
    << <<"_", "c", "h", "k">> >>,
    << <<".", "H">>, <<"_", "c", "h", "k">> >> }

RECURSIVE SeqsUpTo(_, _)
SeqsUpTo(S, n) ==
  IF n = 0 THEN {<<>>}
  ELSE LET shorter == SeqsUpTo(S, n - 1)
       IN  shorter \cup {Append(q, x) : q \in shorter, x \in S}

\* what query hands over: Undefined or a list of up to MaxCandidates files
MatchLists == SeqsUpTo(MatchFiles, MaxCandidates)

SelectInit ==
  /\ index = <<>>
  /\ isIndexing = FALSE
  /\ watcher = "undefined"
  /\ entered = 0
  /\ scans = 0
  /\ notices = 0
  /\ errors = 0
  /\ touched = FALSE
  /\ last = Step("init", <<>>, FALSE, <<>>)
  /\ releases = 0
  /\ matches \in MatchLists
  /\ patterns \in PatternLists
  /\ shown = Undefined
  /\ provided = FALSE

\* a definition request, from the index query on
DefinitionRequest ==
  /\ ~provided
  /\ shown' = provideDefinition(matches, patterns)
  /\ provided' = TRUE
  /\ UNCHANGED <<matches, patterns>>
  /\ UNCHANGED serviceVars

SelectNext == DefinitionRequest

SelectSpec == SelectInit /\ [][SelectNext]_vars

TypeOK ==
  /\ isIndexing \in BOOLEAN
  /\ watcher \in {"undefined", "active", "disposed"}
  /\ releases \in 0..MaxDisposals
  /\ entered \in 0..1
  /\ scans \in 0..1
  /\ notices \in 0..MaxNotices
  /\ errors \in 0..1
  /\ \A i \in 1..Len(index) : index[i].key \in {IndexKey(p) : p \in Paths}
(***************************************************************************)
(* Vocabulary of the properties, stated without the code's loops.           *)
(***************************************************************************)
\* t occurs in s as a contiguous block
HasSubstring(s, t) ==
  \E i \in 0..Len(s) : i + Len(t) <= Len(s) /\ SubSeq(s, i + 1, i + Len(t)) = t

\* the text with its upper-case letters turned to lower case
LowerCased(t) ==
  [i \in 1..Len(t) |-> IF t[i] = "A" THEN "a" ELSE IF t[i] = "B" THEN "b" ELSE t[i]]

\* the entries' lists one after the other, in entry order
RECURSIVE ConcatUris(_)
ConcatUris(entries) ==
  IF Len(entries) = 0 THEN <<>>
  ELSE ConcatUris(SubSeq(entries, 1, Len(entries) - 1)) \o entries[Len(entries)].uris

MatchingEntries(m, text) ==
  SelectSeq(m, LAMBDA e : HasSubstring(e.key, toUpperCase(text)))

\* every file of the index has a key of its own
PairwiseDistinctKeys(m) == \A i \in 1..Len(m) : Len(m[i].uris) = 1

(***************************************************************************)
(* C1: for every index state and every non-empty search text, query         *)
(* returns exactly the lists of the keys that contain the upper-cased text  *)
(* as a contiguous substring, in key order and in insertion order within a  *)
(* key; texts that differ only in letter case get the same result, and a    *)
(* text that is a proper superstring of every key gets no match.            *)
(***************************************************************************)
QueryIsSubstringMatch ==
  \A t \in SearchTexts :
    \A found \in {query(index, t)}, upper \in {toUpperCase(t)} :
      /\ found = ConcatUris(MatchingEntries(index, t))
      /\ found = query(index, LowerCased(t))
      /\ (\A k \in MapKeys(index) : Len(upper) > Len(k) /\ HasSubstring(upper, k))
         => found = Undefined

\* a lower-case text matches one key of two, another matches both
QueryMatchesSomeKeys ==
  /\ Len(index) >= 2
  /\ Len(MatchingEntries(index, <<"a">>)) = 1
  /\ Len(MatchingEntries(index, <<"b">>)) >= 2
  /\ query(index, <<"a">>) # Undefined
  /\ query(index, <<"b">>) # query(index, <<"a">>)

(***************************************************************************)
(* C2 as stated: when every indexed file has a key of its own, querying a   *)
(* key of the index returns exactly the files under that key.               *)
(***************************************************************************)
LookupReturnsOnlyOwnKey ==
  PairwiseDistinctKeys(index) =>
    \A i \in 1..Len(index) : query(index, index[i].key) = index[i].uris

(***************************************************************************)
(* C2 as amended: when every indexed file has a key of its own, querying a  *)
(* key that no other key of the index contains returns exactly the files    *)
(* under that key.                                                          *)
(***************************************************************************)
LookupOfUncontainedKey ==
  PairwiseDistinctKeys(index) =>
    \A i \in 1..Len(index) :
      (\A j \in 1..Len(index) : j # i => ~HasSubstring(index[j].key, index[i].key))
      => query(index, index[i].key) = index[i].uris

\* two files with keys of their own, the first key not inside the second
LookupAmongDistinctKeys ==
  /\ Len(index) = 2
  /\ PairwiseDistinctKeys(index)
  /\ ~HasSubstring(index[2].key, index[1].key)
  /\ HasSubstring(index[1].key, index[2].key)

(***************************************************************************)
(* C3 as stated: in every reachable state no entry holds the same path      *)
(* twice.                                                                   *)
(***************************************************************************)
NoDuplicatePath ==
  \A i \in 1..Len(index) :
    \A a, b \in 1..Len(index[i].uris) :
      a # b => index[i].uris[a] # index[i].uris[b]

(***************************************************************************)
(* C4: in every state between operations no key of the index maps to an     *)
(* empty list.                                                              *)
(***************************************************************************)
NoEmptyEntry == \A i \in 1..Len(index) : Len(index[i].uris) > 0

\* a delete event took the last file of a key while a build was scanning
EntryEmptiedDuringScan ==
  /\ scans = 1
  /\ last.op = "delete"
  /\ last.had
  /\ ~MapHas(index, IndexKey(last.path))

(***************************************************************************)
(* C5: a buildIndex() call made while a build is in progress changes        *)
(* nothing but the notice it shows: the index is not cleared and no second  *)
(* enumeration starts, so at most one run is ever under way, and the run    *)
(* in progress resolves to the index a single run produces.                 *)
(***************************************************************************)
ReentrantCallIsNoOp ==
  /\ [][last'.op = "skip" =>
          /\ index' = index
          /\ isIndexing' = isIndexing
          /\ watcher' = watcher
          /\ entered' = entered
          /\ scans' = scans
          /\ notices' = notices + 1]_vars
  /\ [](entered + scans <= 1)
  /\ [](last.op = "resolve" /\ notices > 0 /\ ~touched
          => index = Populate(<<>>, last.files))

\* a run resolved with files after a call was short-circuited during it
ResolvedAfterReentrantCall ==
  /\ last.op = "resolve"
  /\ notices > 0
  /\ Len(last.files) > 0

(***************************************************************************)
(* C6: a run that passed the guard eventually releases the in-progress      *)
(* flag, on success and on failure; the flag is set only while a run is     *)
(* under way, and a call made right after a run ended starts a new run.     *)
(***************************************************************************)
FlagEventuallyReleased ==
  /\ isIndexing ~> ~isIndexing
  /\ [](entered + scans = 0 => ~isIndexing)
  /\ [][last.op \in {"resolve", "reject"} /\ last'.op \in {"skip", "enter"}
          => last'.op = "enter" /\ isIndexing']_vars

\* the enumeration failed and the flag is down again
FlagReleasedAfterFailure ==
  /\ last.op = "reject"
  /\ errors = 1
  /\ ~isIndexing

(***************************************************************************)
(* C7: when a run resolves and no watch event was handled during it, the    *)
(* index is the grouping of the enumerated files by key: the keys are those *)
(* of the files, each once, the list of a key is the files of that key in   *)
(* enumeration order, and nothing else is left; the key is the upper-cased  *)
(* base name without its extension.                                         *)
(***************************************************************************)
ExpectedKeys ==
  << <<"A", "B">>, <<"A", "B">>, <<"B">>, <<"B", "A">>, <<"A", ".", "B">> >>

IsGrouping(m, files) ==
  /\ MapKeys(m) = {IndexKey(files[n]) : n \in 1..Len(files)}
  /\ \A i, j \in 1..Len(m) : i # j => m[i].key # m[j].key
  /\ \A i \in 1..Len(m) :
       m[i].uris = SelectSeq(files, LAMBDA f : IndexKey(f) = m[i].key)

RebuildGroupsEnumeration ==
  /\ \A n \in 1..Len(PathList) : IndexKey(PathList[n]) = ExpectedKeys[n]
  /\ (last.op = "resolve" /\ ~touched) => IsGrouping(index, last.files)

\* an undisturbed run resolved with two files of one key and a third
RebuildGroupedSharedKey ==
  /\ last.op = "resolve"
  /\ ~touched
  /\ Len(last.files) = 3
  /\ Len(index) = 2

(***************************************************************************)
(* C8: a create event for a path already under its key leaves the index as  *)
(* it is, and handling a create event twice gives what handling it once     *)
(* gives.                                                                   *)
(***************************************************************************)
CreateIsIdempotent ==
  /\ [](\A p \in Paths :
          OnDidCreate(OnDidCreate(index, p), p) = OnDidCreate(index, p))
  /\ [][last'.op = "create" /\ last'.had => index' = index]_vars

\* a create event came for a path the index held already
DuplicateCreateHandled ==
  /\ last.op = "create"
  /\ last.had
  /\ Present(index, last.path)

(***************************************************************************)
(* C9: a delete event for a path the index does not hold, its key absent    *)
(* or holding other paths only, leaves the index unchanged: same keys in    *)
(* the same order with the same lists.                                      *)
(***************************************************************************)
DeleteOfAbsentPathIsNoOp ==
  [][last'.op = "delete" /\ ~last'.had => index' = index]_vars

\* a delete event came for a path not held, under a key holding another
AbsentPathDeletedUnderSharedKey ==
  /\ last.op = "delete"
  /\ ~last.had
  /\ MapHas(index, IndexKey(last.path))
  /\ Len(index) >= 2

(***************************************************************************)
(* C10: a delete event for a held path leaves the entries of the other keys *)
(* and their order as they were; when it took the last file of the key, the *)
(* key is gone and no query returns the path; otherwise the key keeps its   *)
(* place and its list is the old one without the path, in the old order.    *)
(***************************************************************************)
DeleteRemovesOnlyThePath ==
  [][last'.op = "delete" /\ last'.had =>
       LET p == last'.path
           k == IndexKey(p)
           rest == SelectSeq(MapGet(index, k), LAMBDA u : u # p)
       IN  /\ SelectSeq(index', LAMBDA e : e.key # k)
                = SelectSeq(index, LAMBDA e : e.key # k)
           /\ \A t \in SearchTexts : ~Contains(query(index', t), p)
           /\ IF Len(rest) = 0
              THEN k \notin MapKeys(index')
              ELSE /\ Len(index') = Len(index)
                   /\ \A i \in 1..Len(index) : index'[i].key = index[i].key
                   /\ MapGet(index', k) = rest]_vars

\* a delete event took the last file of a key and another key remains
LastFileOfKeyDeleted ==
  /\ last.op = "delete"
  /\ last.had
  /\ ~MapHas(index, IndexKey(last.path))
  /\ Len(index) >= 1

(***************************************************************************)
(* Vocabulary of the selection properties.                                  *)
(***************************************************************************)
\* the upper-cased extension-stripped base name of f ends with suffix
EndsNoCase(f, suffix) ==
  LET name == toUpperCase(ParseName(f))
  IN  /\ Len(name) >= Len(suffix)
      /\ SubSeq(name, Len(name) - Len(suffix) + 1, Len(name)) = suffix

\* the full file name of f contains pattern, letter case apart
NameHasPattern(f, pattern) ==
  HasSubstring(toUpperCase(basename(f)), toUpperCase(pattern))

\* the candidates left by the exclusion, in candidate order
Kept(ms, ps) ==
  SelectSeq(ms, LAMBDA f : \A n \in 1..Len(ps) : ~NameHasPattern(f, ps[n]))

Ending(ms, suffix) == SelectSeq(ms, LAMBDA f : EndsNoCase(f, suffix))

(***************************************************************************)
(* C11: whenever a candidate left by the exclusion ends with _HOT_SPARK,    *)
(* the result is exactly the candidates with that suffix, in candidate      *)
(* order, and every other candidate is discarded.                           *)
(***************************************************************************)
HotSparkTierWins ==
  provided =>
    LET kept == Kept(matches, patterns)
    IN  Len(Ending(kept, HOT_SPARK)) > 0 => shown = Ending(kept, HOT_SPARK)

\* a _HOT_SPARK file was shown and a _HOT and a _SPARK file were not
HotSparkShownAlone ==
  /\ provided
  /\ Len(Kept(matches, patterns)) = 3
  /\ Len(shown) = 1
  /\ EndsNoCase(shown[1], HOT_SPARK)
  /\ Len(Ending(matches, HOT)) = 1
  /\ Len(Ending(matches, SPARK)) = 2

(***************************************************************************)
(* C12: whenever no candidate left by the exclusion ends with _HOT_SPARK    *)
(* and at least one ends with _HOT, the result is exactly the candidates    *)
(* ending with _HOT, in candidate order, for any number of candidates.      *)
(***************************************************************************)
HotTierWins ==
  provided =>
    LET kept == Kept(matches, patterns)
    IN  (Len(Ending(kept, HOT_SPARK)) = 0 /\ Len(Ending(kept, HOT)) > 0)
        => shown = Ending(kept, HOT)

\* of three candidates the one _HOT file was shown
HotShownOfThree ==
  /\ provided
  /\ Len(Kept(matches, patterns)) = 3
  /\ Len(Ending(matches, HOT_SPARK)) = 0
  /\ Len(shown) = 1
  /\ EndsNoCase(shown[1], HOT)

(***************************************************************************)
(* C13: when no candidate left by the exclusion ends with _HOT_SPARK or     *)
(* _HOT, exactly two are left and at least one of them ends with _SPARK,    *)
(* the result is exactly the candidates ending with _SPARK, in order.       *)
(***************************************************************************)
SparkTierOfTwo ==
  provided =>
    LET kept == Kept(matches, patterns)
    IN  ( /\ Len(Ending(kept, HOT_SPARK)) = 0
          /\ Len(Ending(kept, HOT)) = 0
          /\ Len(kept) = 2
          /\ Len(Ending(kept, SPARK)) > 0 )
        => shown = Ending(kept, SPARK)

\* of two candidates the one _SPARK file was shown
SparkShownOfTwo ==
  /\ provided
  /\ Len(Kept(matches, patterns)) = 2
  /\ Len(Ending(matches, HOT)) = 0
  /\ Len(Ending(matches, HOT_SPARK)) = 0
  /\ Len(shown) = 1
  /\ EndsNoCase(shown[1], SPARK)

(***************************************************************************)
(* C14: when no candidate left by the exclusion ends with _HOT_SPARK or     *)
(* _HOT and either their number is not two or none ends with _SPARK, the    *)
(* result is all the candidates left, in their order.                       *)
(***************************************************************************)
FallbackShowsAll ==
  provided =>
    LET kept == Kept(matches, patterns)
    IN  ( /\ Len(Ending(kept, HOT_SPARK)) = 0
          /\ Len(Ending(kept, HOT)) = 0
          /\ (Len(kept) # 2 \/ Len(Ending(kept, SPARK)) = 0) )
        => shown = kept

\* three candidates, one of them a _SPARK file, were all shown
ThreeShownDespiteSpark ==
  /\ provided
  /\ Len(Kept(matches, patterns)) = 3
  /\ Len(Ending(matches, SPARK)) = 1
  /\ Len(shown) = 3

(***************************************************************************)
(* C15: a candidate whose full file name contains an exclude pattern,       *)
(* letter case apart, is not in the result and does not count in any tier   *)
(* or in the count of two, even when it ends with _HOT_SPARK; when the      *)
(* exclusion leaves nothing the result is empty.                            *)
(***************************************************************************)
ExclusionPrecedesTiers ==
  provided =>
    LET kept == Kept(matches, patterns)
    IN  /\ \A i \in 1..Len(shown) : \A n \in 1..Len(patterns) :
             ~NameHasPattern(shown[i], patterns[n])
        /\ shown = IF Len(kept) = 0 THEN Undefined ELSE PreferBySuffix(kept)
        /\ (Len(kept) = 2 /\ Len(Ending(kept, SPARK)) = 1
              /\ Len(Ending(kept, HOT)) = 0 /\ Len(Ending(kept, HOT_SPARK)) = 0)
           => Len(shown) = 1

\* an excluded _HOT_SPARK file and an excluded plain file were among three
\* matches, and of the two left the _SPARK file was shown
ExcludedHotSparkNotCounted ==
  /\ provided
  /\ Len(matches) = 3
  /\ Len(Ending(matches, HOT_SPARK)) = 1
  /\ Len(Kept(matches, patterns)) = 2
  /\ Len(shown) = 1
  /\ EndsNoCase(shown[1], SPARK)
  /\ ~EndsNoCase(shown[1], HOT_SPARK)

(***************************************************************************)
(* C16 as stated: over construction and any dispose() calls the watcher is  *)
(* released at most once, and never when none was created.                  *)
(***************************************************************************)
WatcherReleasedOnce ==
  /\ releases <= 1
  /\ watcher = "undefined" => releases = 0

(***************************************************************************)
(* C17 as stated, for the delete event handled last before the run          *)
(* resolves: the file it named is not in the index once the run resolved.   *)
(***************************************************************************)
DeletedFileStaysOut ==
  [][(scans = 1 /\ last.op = "delete" /\ last'.op = "resolve")
       => ~Present(index', last.path)]_vars

(***************************************************************************)
(* C18: passing the guard leaves the index as it was, so that queries are   *)
(* answered from the previous index until clear() runs; right after         *)
(* clear() every query finds nothing; and when the run resolves each        *)
(* enumerated file is found again by a query for its name.                  *)
(***************************************************************************)
RebuildHasEmptyWindow ==
  /\ [][last'.op = "enter" => index' = index]_vars
  /\ [](last.op = "start" =>
          /\ isIndexing
          /\ \A t \in SearchTexts : query(index, t) = Undefined)
  /\ [](last.op = "resolve" =>
          \A n \in 1..Len(last.files) :
            Contains(query(index, ParseName(last.files[n])), last.files[n]))

\* a build is scanning and no query finds the files that clear() removed
PreviousFilesHiddenDuringScan ==
  /\ last.op = "start"
  /\ isIndexing
  /\ scans = 1
  /\ Len(last.files) >= 2
  /\ \A n \in 1..Len(last.files) : query(index, ParseName(last.files[n])) = Undefined

(***************************************************************************)
(* C19: a failed enumeration shows one error message, ends the run without  *)
(* another attempt, releases the flag and leaves the index as it was just   *)
(* before: empty when no watch event was handled since the guard, and never *)
(* restored from the previous index.                                        *)
(***************************************************************************)
FailureLeavesClearedIndex ==
  /\ [][last'.op = "reject" =>
          /\ index' = index
          /\ errors' = 1
          /\ ~isIndexing'
          /\ scans' = 0
          /\ entered' = 0]_vars
  /\ [](last.op = "reject" /\ ~touched => index = <<>>)
  /\ [][last.op = "start" /\ last'.op = "reject" => index' = <<>>]_vars

\* the enumeration failed after clear() removed files and an event added one
FailureKeepsEventEffects ==
  /\ last.op = "reject"
  /\ touched
  /\ Len(index) = 1
  /\ errors = 1
  /\ ~isIndexing

(***************************************************************************)
(* C20 as stated: for distinct paths A and B, delete(A) then create(B) and  *)
(* create(B) then delete(A) end in the same index, keys in the same order,  *)
(* with A absent and B held exactly once.                                   *)
(***************************************************************************)
Occurrences(m, uri) ==
  Len(SelectSeq(MapUris(m), LAMBDA u : u = uri))

SameEntries(x, y) ==
  /\ Len(x) = Len(y)
  /\ \A i \in 1..Len(x) : \E j \in 1..Len(y) : y[j] = x[i]

RenameAgrees(x, y, A, B) ==
  /\ SameEntries(x, y)
  /\ ~Present(x, A) /\ ~Present(y, A)
  /\ Present(x, B) /\ Present(y, B)
  /\ IndexKey(A) # IndexKey(B) => x = y

====
